---- MODULE Spec2Model ----
(***************************************************************************)
(* Model of the animation gallery: the AnimationManager of src/main.ts     *)
(* (module discovery, dropdown, animation-frame loop, lifecycle of the     *)
(* current animation) and the per-animation classes it constructs, as far  *)
(* as they touch the shared THREE.Scene, the document and their own        *)
(* asynchronous initialisation.  Ball-ball collision response is modelled  *)
(* separately (SpecCollision) in exact rational arithmetic, and so are the *)
(* manager with its dispose() called (SpecDisposable), one                 *)
(* FireworksAnimation with its clock and colours (SpecFireworks), one      *)
(* square of the GridPuzzleAnimation (SpecGrid) and the tails of the       *)
(* FlyingParticlesAnimation (SpecFlying).                                  *)
(*                                                                         *)
(* JavaScript runs every handler to completion, so each action below is a  *)
(* whole task: one animation frame, one change event, or the continuation  *)
(* of an async method after one await.                                     *)
(***************************************************************************)
EXTENDS Integers, Sequences, FiniteSets, TLC

(***************************************************************************)
(* Bounds of the model (not program constants).                            *)
(***************************************************************************)
\* animations constructed in one behaviour (initial one + change events)
MaxInstances == 3
\* fireworks launched by one FireworksAnimation instance
MaxLaunches == 1
\* particles created by one explosion (the code draws 30..49)
MaxSparks == 1
\* update() calls of the FireworksAnimation looked at on its own
MaxFrames == 2
\* rotations triggered for the grid square looked at on its own
MaxRotations == 2
\* update() calls of the FlyingParticlesAnimation looked at on its own
MaxUpdates == 45

(***************************************************************************)
(* Strings are sequences of one-character strings, so that the string      *)
(* operations of loadAnimations are computed and not assumed.              *)
(***************************************************************************)
Upper == <<"A","B","C","D","E","F","G","H","I","J","K","L","M",
           "N","O","P","Q","R","S","T","U","V","W","X","Y","Z">>
Lower == <<"a","b","c","d","e","f","g","h","i","j","k","l","m",
           "n","o","p","q","r","s","t","u","v","w","x","y","z">>
Digits == <<"0","1","2","3","4","5","6","7","8","9">>

RECURSIVE PosIn(_, _, _)
\* position of character c in the alphabet al at or after k, 0 if absent
PosIn(c, al, k) ==
    IF k > Len(al) THEN 0
    ELSE IF al[k] = c THEN k ELSE PosIn(c, al, k + 1)

\* String.prototype.toLowerCase, one character
LowerChar(c) == IF PosIn(c, Upper, 1) > 0 THEN Lower[PosIn(c, Upper, 1)] ELSE c

\* String.prototype.toLowerCase
ToLowerCase(s) == [k \in 1..Len(s) |-> LowerChar(s[k])]

\* TRUE iff pat occurs in s starting at position k
MatchAt(s, pat, k) ==
    /\ k + Len(pat) - 1 <= Len(s)
    /\ \A j \in 1..Len(pat) : s[k + j - 1] = pat[j]

RECURSIVE IndexFrom(_, _, _)
\* String.prototype.indexOf from position k (1-based, 0 when absent)
IndexFrom(s, pat, k) ==
    IF k + Len(pat) - 1 > Len(s) THEN 0
    ELSE IF MatchAt(s, pat, k) THEN k ELSE IndexFrom(s, pat, k + 1)

\* String.prototype.replace(pattern: string, ''): removes the FIRST occurrence
ReplaceFirst(s, pat) ==
    LET k == IndexFrom(s, pat, 1)
    IN  IF k = 0 THEN s
        ELSE SubSeq(s, 1, k - 1) \o SubSeq(s, k + Len(pat), Len(s))

RECURSIVE LastSlash(_, _)
\* position of the last "/" in s at or before k, 0 if none
LastSlash(s, k) ==
    IF k = 0 THEN 0 ELSE IF s[k] = "/" THEN k ELSE LastSlash(s, k - 1)

\* path.split('/').pop()
LastSegment(path) == SubSeq(path, LastSlash(path, Len(path)) + 1, Len(path))

StrAnimation == <<"A","n","i","m","a","t","i","o","n">>
StrDotTs == <<".","t","s">>

\* main.ts:47  path.split('/').pop()?.replace('.ts', '') || ''
NameOfPath(path) == ReplaceFirst(LastSegment(path), StrDotTs)

\* main.ts:54  a.name.replace('Animation', '').toLowerCase()
SortKey(name) == ToLowerCase(ReplaceFirst(name, StrAnimation))

\* collation weight of one character for localeCompare: punctuation sorts
\* before digits, digits before letters (root collation)
CharRank(c) ==
    IF PosIn(c, Digits, 1) > 0 THEN 10 + PosIn(c, Digits, 1)
    ELSE IF PosIn(c, Lower, 1) > 0 THEN 30 + PosIn(c, Lower, 1)
    ELSE IF PosIn(c, Upper, 1) > 0 THEN 30 + PosIn(c, Upper, 1)
    ELSE IF c = "_" THEN 2 ELSE IF c = "." THEN 3 ELSE 1

RECURSIVE CompareFrom(_, _, _)
\* String.prototype.localeCompare on lower-cased keys: -1, 0 or 1
CompareFrom(a, b, k) ==
    IF k > Len(a) /\ k > Len(b) THEN 0
    ELSE IF k > Len(a) THEN -1
    ELSE IF k > Len(b) THEN 1
    ELSE IF CharRank(a[k]) < CharRank(b[k]) THEN -1
    ELSE IF CharRank(a[k]) > CharRank(b[k]) THEN 1
    ELSE CompareFrom(a, b, k + 1)

LocaleCompare(a, b) == CompareFrom(a, b, 1)

\* the comparator of main.ts:53-57
CompareAnimations(a, b) == LocaleCompare(SortKey(a.name), SortKey(b.name))

RECURSIVE InsertSorted(_, _)
\* stable insertion of x behind every element that does not compare greater
InsertSorted(x, sorted) ==
    IF sorted = <<>> THEN <<x>>
    ELSE IF CompareAnimations(x, Head(sorted)) < 0 THEN <<x>> \o sorted
    ELSE <<Head(sorted)>> \o InsertSorted(x, Tail(sorted))

RECURSIVE SortFrom(_, _, _)
SortFrom(list, k, acc) ==
    IF k > Len(list) THEN acc
    ELSE SortFrom(list, k + 1, InsertSorted(list[k], acc))

\* the list left in the order of the imports
LeftUnsorted(list) == list

\* Array.prototype.sort with the comparator above (stable)
SortAnimations(list) == SortFrom(list, 1, <<>>)

(***************************************************************************)
(* The result of import.meta.glob('./animations/*.ts'): the modules in key *)
(* order, each with the values of its exports (Object.values(module)).     *)
(***************************************************************************)
\* the directory as it is in the repository
GlobRepo ==
    << [path |-> <<".","/","a","n","i","m","a","t","i","o","n","s","/","1","_","B","o","u","n","c","e","A","n","i","m","a","t","i","o","n",".","t","s">>,
        exports |-> <<[kind |-> "class", extends |-> "AbstractAnimation", cls |-> "Bounce"]>>],
       [path |-> <<".","/","a","n","i","m","a","t","i","o","n","s","/","2","_","S","o","f","t","B","o","d","y","A","n","i","m","a","t","i","o","n",".","t","s">>,
        exports |-> <<[kind |-> "class", extends |-> "AbstractAnimation", cls |-> "SoftBody"]>>],
       [path |-> <<".","/","a","n","i","m","a","t","i","o","n","s","/","3","_","P","e","n","t","a","g","o","n","R","o","t","a","t","i","o","n","A","n","i","m","a","t","i","o","n",".","t","s">>,
        exports |-> <<[kind |-> "class", extends |-> "AbstractAnimation", cls |-> "Pentagon"]>>],
       [path |-> <<".","/","a","n","i","m","a","t","i","o","n","s","/","4","_","G","r","i","d","P","u","z","z","l","e","A","n","i","m","a","t","i","o","n",".","t","s">>,
        exports |-> <<[kind |-> "class", extends |-> "AbstractAnimation", cls |-> "GridPuzzle"]>>],
       [path |-> <<".","/","a","n","i","m","a","t","i","o","n","s","/","5","_","F","l","y","i","n","g","P","a","r","t","i","c","l","e","s","A","n","i","m","a","t","i","o","n",".","t","s">>,
        exports |-> <<[kind |-> "class", extends |-> "AbstractAnimation", cls |-> "FlyingParticles"]>>],
       [path |-> <<".","/","a","n","i","m","a","t","i","o","n","s","/","6","_","C","o","n","t","r","o","l","l","e","d","S","p","h","e","r","e","A","n","i","m","a","t","i","o","n",".","t","s">>,
        exports |-> <<[kind |-> "class", extends |-> "AbstractAnimation", cls |-> "ControlledSphere"]>>],
       [path |-> <<".","/","a","n","i","m","a","t","i","o","n","s","/","B","a","s","e","A","n","i","m","a","t","i","o","n",".","t","s">>,
        exports |-> <<[kind |-> "class", extends |-> "none", cls |-> "BaseAnimation"]>>],
       [path |-> <<".","/","a","n","i","m","a","t","i","o","n","s","/","F","i","r","e","w","o","r","k","s","A","n","i","m","a","t","i","o","n",".","t","s">>,
        exports |-> <<[kind |-> "class", extends |-> "AbstractAnimation", cls |-> "Fireworks"]>>],
       [path |-> <<".","/","a","n","i","m","a","t","i","o","n","s","/","i","n","d","e","x",".","t","s">>,
        exports |-> <<[kind |-> "array", extends |-> "none", cls |-> "none"]>>] >>

\* the three animations listed by animations/index.ts, in the order of that
\* list, next to a module without exports and the index itself
GlobUnsorted ==
    << [path |-> <<".","/","a","n","i","m","a","t","i","o","n","s","/","P","e","n","t","a","g","o","n","R","o","t","a","t","i","o","n","A","n","i","m","a","t","i","o","n",".","t","s">>,
        exports |-> <<[kind |-> "class", extends |-> "AbstractAnimation", cls |-> "Pentagon"]>>],
       [path |-> <<".","/","a","n","i","m","a","t","i","o","n","s","/","t","y","p","e","s",".","t","s">>,
        exports |-> <<>>],
       [path |-> <<".","/","a","n","i","m","a","t","i","o","n","s","/","B","o","u","n","c","e","A","n","i","m","a","t","i","o","n",".","t","s">>,
        exports |-> <<[kind |-> "class", extends |-> "AbstractAnimation", cls |-> "Bounce"]>>],
       [path |-> <<".","/","a","n","i","m","a","t","i","o","n","s","/","F","i","r","e","w","o","r","k","s","A","n","i","m","a","t","i","o","n",".","t","s">>,
        exports |-> <<[kind |-> "class", extends |-> "AbstractAnimation", cls |-> "Fireworks"]>>],
       [path |-> <<".","/","a","n","i","m","a","t","i","o","n","s","/","i","n","d","e","x",".","t","s">>,
        exports |-> <<[kind |-> "array", extends |-> "none", cls |-> "none"]>>] >>

GlobNames == {"repo", "unsorted"}

AnimationModules(g) == IF g = "repo" THEN GlobRepo ELSE GlobUnsorted

\* Object.values(module)[0]; undefined when the module exports nothing
FirstExport(module) ==
    IF module.exports = <<>> THEN [kind |-> "undefined", extends |-> "none", cls |-> "none"]
    ELSE module.exports[1]

\* accepts every class, whatever it extends
IsAnyClass(v) == v.kind = "class"

\* main.ts:46  animationClass && animationClass.prototype instanceof AbstractAnimation
IsAnimationClass(v) ==
    /\ v.kind # "undefined"
    /\ v.kind = "class"
    /\ v.extends = "AbstractAnimation"

\* main.ts:46-49: the list after the module has been examined
Register(list, module) ==
    IF IsAnimationClass(FirstExport(module))
    THEN Append(list, [name |-> NameOfPath(module.path),
                       constructor |-> FirstExport(module).cls])
    ELSE list

(***************************************************************************)
(* The scene is the set of its children; a child is named by the instance  *)
(* that created it, its role and a number.                                 *)
(***************************************************************************)
Child(owner, kind, n) == [owner |-> owner, kind |-> kind, n |-> n]

\* this.colors (FireworksAnimation.ts:22-30)
Colors == <<16711680, 65280, 255, 16776960, 16711935, 65535, 16746496>>

\* this.lastColor before the first launch (null)
NoColor == -1

\* this.fireworkInterval, in milliseconds
FireworkInterval == 1500

\* background of a fresh THREE.Scene
NoBackground == "null"

\* children every constructor adds to the scene synchronously
ConstructChildren(cls, i) ==
    CASE cls = "Bounce" -> {Child(i, "ball", n) : n \in 1..5}
      [] cls = "Pentagon" -> {Child(i, "pentagon", 1)} \cup {Child(i, "ball", n) : n \in 1..20}
      [] cls = "GridPuzzle" -> {Child(i, "gridGroup", 1)}
      [] cls = "FlyingParticles" -> {Child(i, "group", 1)}
      [] cls = "ControlledSphere" -> {Child(i, "group", 1)}
      [] cls = "SoftBody" -> {Child(i, "ambientLight", 1), Child(i, "directionalLight", 1)}
      [] cls = "Fireworks" -> {}
      [] OTHER -> {}

\* scene.background after the constructor (only SoftBodyAnimation sets it)
ConstructBackground(cls, bg) == IF cls = "SoftBody" THEN "0x2c2c2c" ELSE bg

\* fields of a new instance, after its constructor has returned
ConstructState(cls) ==
    CASE cls = "Bounce" -> [balls |-> 5]
      [] cls = "Pentagon" -> [balls |-> 20]
      [] cls = "GridPuzzle" -> [squares |-> TRUE]
      [] cls = "FlyingParticles" -> [particles |-> 15]
      [] cls = "ControlledSphere" ->
            [disposed |-> FALSE, setupPc |-> "getUserMedia",
             video |-> TRUE, videoInDom |-> TRUE, srcObject |-> FALSE,
             stream |-> FALSE, acquired |-> FALSE, tracksStopped |-> FALSE,
             hands |-> FALSE, camera |-> FALSE, cameraRunning |-> FALSE,
             startedAfterDispose |-> FALSE, disposedAt |-> "never"]
      [] cls = "SoftBody" ->
            [initPc |-> "ammo", ammoModule |-> FALSE, physicsWorld |-> FALSE,
             transformAux1 |-> FALSE, softBodyHelpers |-> FALSE,
             softBodies |-> 0, rigidBodies |-> 0, worldBodies |-> {},
             disposedAt |-> "never"]
      [] cls = "Fireworks" ->
            [particles |-> <<>>, meshes |-> {}, worldBodies |-> {}, timers |-> {},
             lastFireworkTime |-> 0, lastColor |-> NoColor, launches |-> 0,
             nextPid |-> 1]
      [] OTHER -> [none |-> TRUE]

\* new animation.constructor(this.scene)
NewInstance(cls) ==
    [cls |-> cls, phase |-> "constructed", misuse |-> "none", st |-> ConstructState(cls)]

(***************************************************************************)
(* Lifecycle of an instance as the manager drives it: phase is             *)
(* "constructed" after the constructor, "updated" once update() has been   *)
(* called, "disposed" once dispose() has been called; misuse records the   *)
(* first call that arrived after dispose().                                *)
(***************************************************************************)
\* the instance record after it received update()
ReceiveUpdate(inst) ==
    IF inst.phase = "disposed"
    THEN [inst EXCEPT !.misuse = IF @ = "none" THEN "updateAfterDispose" ELSE @]
    ELSE [inst EXCEPT !.phase = "updated"]

\* the instance record after it received dispose()
ReceiveDispose(inst) ==
    IF inst.phase = "disposed"
    THEN [inst EXCEPT !.misuse = IF @ = "none" THEN "disposeTwice" ELSE @]
    ELSE [inst EXCEPT !.phase = "disposed"]

(***************************************************************************)
(* ControlledSphereAnimation: dispose and its helpers.                     *)
(***************************************************************************)
\* stopMediaStream(): stops every track of this.stream and forgets it
StopMediaStream(st) ==
    IF st.stream THEN [st EXCEPT !.tracksStopped = TRUE, !.stream = FALSE] ELSE st

\* cleanupVideoElement(): pauses, detaches and removes this.video
CleanupVideoElement(st) ==
    IF ~st.video THEN st
    ELSE [st EXCEPT !.srcObject = FALSE, !.videoInDom = FALSE, !.video = FALSE]

\* ControlledSphereAnimation.dispose(), fields only
SphereDispose(st) ==
    LET flagged == [st EXCEPT !.disposed = TRUE,
                              !.disposedAt = IF @ = "never" THEN st.setupPc ELSE @,
                              !.camera = FALSE, !.cameraRunning = FALSE,
                              !.hands = FALSE]
    IN  CleanupVideoElement(StopMediaStream(flagged))

(***************************************************************************)
(* SoftBodyAnimation.dispose(): only acts when a physics world exists, and *)
(* then only on the physics world and the instance's own references.       *)
(***************************************************************************)
SoftBodyDispose(st) ==
    LET noted == [st EXCEPT !.disposedAt = IF @ = "never" THEN st.initPc ELSE @]
    IN  IF noted.physicsWorld
        THEN [noted EXCEPT !.worldBodies = @ \ {"ground", "softBall"},
                           !.softBodies = 0, !.rigidBodies = 0,
                           !.physicsWorld = FALSE, !.ammoModule = FALSE,
                           !.transformAux1 = FALSE, !.softBodyHelpers = FALSE]
        ELSE noted

(***************************************************************************)
(* FireworksAnimation: particles are numbered; a particle's mesh is the    *)
(* scene child "particle" with its number, its body is in st.worldBodies   *)
(* (the four wall bodies of the world never change and are left out).      *)
(***************************************************************************)
SeqRange(s) == {s[k] : k \in 1..Len(s)}

\* this.particles.filter(p => p !== particle)
Without(s, p) == SelectSeq(s, LAMBDA x : x # p)

\* removeParticle(particle): the mesh leaves the scene, the body leaves the
\* world and this.particles becomes a new array without the particle
RemoveParticle(st, p) ==
    [st EXCEPT !.meshes = @ \ {p}, !.worldBodies = @ \ {p}, !.particles = Without(@, p)]

\* forEach that walks the array this.particles now refers to
ForEachLive(called, current) == current

\* the array a forEach walks: the one it was called on, whatever
\* this.particles has been assigned since
ForEachArray(called, current) == called

\* this.particles.forEach(particle => { if (doomed) removeParticle(particle) })
\* from index k on; called is the array forEach was called on, and forEach
\* visits the indices below the length that array had at the call
RECURSIVE ForEachRemove(_, _, _, _)
ForEachRemove(st, called, k, doomed) ==
    LET walked == ForEachArray(called, st.particles)
    IN  IF k > Len(called) THEN st
        ELSE IF k > Len(walked) THEN ForEachRemove(st, called, k + 1, doomed)
        ELSE ForEachRemove(IF walked[k] \in doomed THEN RemoveParticle(st, walked[k]) ELSE st,
                           called, k + 1, doomed)

\* the particles ps are removed in one forEach over this.particles
RemoveParticles(st, ps) == ForEachRemove(st, st.particles, 1, ps)

\* createParticle + this.particles.push: count new particles
CreateParticles(st, count) ==
    [st EXCEPT !.particles = @ \o [k \in 1..count |-> st.nextPid + k - 1],
               !.meshes = @ \cup (st.nextPid .. (st.nextPid + count - 1)),
               !.worldBodies = @ \cup (st.nextPid .. (st.nextPid + count - 1)),
               !.nextPid = @ + count]

\* this.colors.filter(color => color !== this.lastColor)
AvailableColors(lastColor) == SelectSeq(Colors, LAMBDA c : c # lastColor)

\* the colour drawn from all of this.colors
PickAnyColor(lastColor, r) == Colors[r + 1]

\* availableColors[Math.floor(Math.random() * availableColors.length)],
\* r being the index the random draw yields
PickColor(lastColor, r) == AvailableColors(lastColor)[r + 1]

\* the indices Math.floor(Math.random() * availableColors.length) can yield
ColorDraws(lastColor) == 0 .. (Len(AvailableColors(lastColor)) - 1)

\* launchFirework(): the colour, the main particle and its explosion timer
LaunchFirework(st, r) ==
    [CreateParticles(st, 1) EXCEPT !.lastColor = PickColor(st.lastColor, r),
                                   !.timers = @ \cup {st.nextPid},
                                   !.launches = @ + 1]

\* a firework is due whenever some time has passed since the last one
DueAlways(now, last) == now - last > 0

\* currentTime - this.lastFireworkTime > this.fireworkInterval
Due(now, last) == now - last > FireworkInterval

\* update() at Date.now() = now, r the colour draw, expired the particles
\* whose age has reached their lifetime
FireworksUpdate(st, now, r, expired) ==
    LET launched == IF Due(now, st.lastFireworkTime)
                    THEN [LaunchFirework(st, r) EXCEPT !.lastFireworkTime = now]
                    ELSE st
    IN  RemoveParticles(launched, expired)

\* explode(particle) when the timer of main particle p fires
FireworksExplode(st, p, count) ==
    CreateParticles([RemoveParticle(st, p) EXCEPT !.timers = @ \ {p}], count)

\* FireworksAnimation.dispose(): removeParticle for every particle
FireworksDispose(st) == RemoveParticles(st, SeqRange(st.particles))

\* scene children of instance i that are particle meshes of st
ParticleMeshes(i, st) == {Child(i, "particle", p) : p \in st.meshes}

\* the scene with the particle meshes of instance i as st holds them
FireworksScene(i, scn, st) ==
    {c \in scn : ~(c.owner = i /\ c.kind = "particle")} \cup ParticleMeshes(i, st)

(***************************************************************************)
(* dispose() and update() of an instance, by class.                        *)
(***************************************************************************)
\* the fields after dispose()
DisposeState(inst) ==
    CASE inst.cls = "ControlledSphere" -> SphereDispose(inst.st)
      [] inst.cls = "SoftBody" -> SoftBodyDispose(inst.st)
      [] inst.cls = "Fireworks" -> FireworksDispose(inst.st)
      [] inst.cls = "GridPuzzle" -> [inst.st EXCEPT !.squares = FALSE]
      [] inst.cls = "FlyingParticles" -> [inst.st EXCEPT !.particles = 0]
      [] OTHER -> inst.st

\* the children dispose() of instance i removes from the scene
DisposeRemoves(inst, i) ==
    CASE inst.cls = "Bounce" -> {Child(i, "ball", n) : n \in 1..5}
      [] inst.cls = "Pentagon" -> {Child(i, "pentagon", 1)} \cup {Child(i, "ball", n) : n \in 1..20}
      [] inst.cls = "GridPuzzle" -> {Child(i, "gridGroup", 1)}
      [] inst.cls = "FlyingParticles" -> {Child(i, "group", 1)}
      [] inst.cls = "ControlledSphere" -> {Child(i, "group", 1)}
      [] inst.cls = "SoftBody" -> {}
      [] inst.cls = "Fireworks" ->
             ParticleMeshes(i, inst.st) \ ParticleMeshes(i, FireworksDispose(inst.st))
      [] OTHER -> {}

\* GridPuzzleAnimation.update() reads this.squares[row][col] for the whole
\* grid; it throws once dispose() has emptied this.squares
GridUpdateThrows(st) == ~st.squares

(***************************************************************************)
(* Exact rational numbers [n, d] in lowest terms with d > 0, for the       *)
(* vector arithmetic of resolveBallCollision.  Lengths are measured in     *)
(* hundredths of a scene unit, so the radii of the code are integers.      *)
(***************************************************************************)
Abs(x) == IF x < 0 THEN -x ELSE x

RECURSIVE Gcd(_, _)
Gcd(a, b) == IF b = 0 THEN a ELSE Gcd(b, a % b)

Rat(n, d) ==
    LET g == Gcd(Abs(n), Abs(d))
        sign == IF d < 0 THEN -1 ELSE 1
    IN  [n |-> sign * (n \div g), d |-> sign * (d \div g)]

Int2Rat(k) == [n |-> k, d |-> 1]

RMul(a, b) ==
    LET g1 == Gcd(Abs(a.n), b.d)
        g2 == Gcd(Abs(b.n), a.d)
    IN  Rat((a.n \div g1) * (b.n \div g2), (a.d \div g2) * (b.d \div g1))

RAdd(a, b) ==
    LET g == Gcd(a.d, b.d)
    IN  Rat(a.n * (b.d \div g) + b.n * (a.d \div g), (a.d \div g) * b.d)

RNeg(a) == [n |-> -a.n, d |-> a.d]

RSub(a, b) == RAdd(a, RNeg(b))

\* 1 / a, for a # 0
RInv(a) == Rat(a.d, a.n)

RDiv(a, b) == RMul(a, RInv(b))

RLess(a, b) == RSub(a, b).n < 0

RLeq(a, b) == RSub(a, b).n <= 0

\* the square root of a perfect square
ISqrt(k) == CHOOSE x \in 0..k : x * x = k

\* Math.sqrt of a rational whose numerator and denominator are squares
RSqrt(a) == [n |-> ISqrt(a.n), d |-> ISqrt(a.d)]

Zero == Int2Rat(0)

(***************************************************************************)
(* Vectors and balls.  A ball has mass m, radius r, position (px, py) and  *)
(* velocity (vx, vy).                                                      *)
(***************************************************************************)
Vec(x, y) == [x |-> x, y |-> y]

VSub(a, b) == Vec(RSub(a.x, b.x), RSub(a.y, b.y))

VAdd(a, b) == Vec(RAdd(a.x, b.x), RAdd(a.y, b.y))

VScale(a, k) == Vec(RMul(a.x, k), RMul(a.y, k))

VDot(a, b) == RAdd(RMul(a.x, b.x), RMul(a.y, b.y))

\* Vector2.length()
VLength(a) == RSqrt(VDot(a, a))

\* Vector2.normalize(): divideScalar(this.length() || 1)
VNormalize(a) ==
    LET len == VLength(a)
    IN  IF len = Zero THEN a ELSE VScale(a, RInv(len))

Position(ball) == Vec(ball.px, ball.py)

Velocity(ball) == Vec(ball.vx, ball.vy)

\* createBall / createBalls: mass is radius * radius
MakeBall(radius, pos, vel) ==
    [m |-> RMul(Int2Rat(radius), Int2Rat(radius)), r |-> Int2Rat(radius),
     px |-> pos.x, py |-> pos.y, vx |-> vel.x, vy |-> vel.y]

NoBall == MakeBall(1, Vec(Zero, Zero), Vec(Zero, Zero))

\* const restitution of each resolveBallCollision
Restitution(animation) ==
    IF animation = "Bounce" THEN Rat(1, 1) ELSE Rat(95, 100)

\* checkBallCollision(ball1, ball2)
CheckBallCollision(b1, b2) ==
    RLess(VLength(VSub(Position(b1), Position(b2))), RAdd(b1.r, b2.r))

\* the impulse with the factor (1 + restitution) reduced to restitution
ImpulseWithoutRebound(alongNormal, e, m1, m2) ==
    RDiv(RMul(RNeg(e), alongNormal), RAdd(RInv(m1), RInv(m2)))

\* the impulse scalar:  j = -(1 + restitution) * velocityAlongNormal,
\* impulse = j / (1/ball1.mass + 1/ball2.mass)
ImpulseScalar(alongNormal, e, m1, m2) ==
    RDiv(RMul(RNeg(RAdd(Int2Rat(1), e)), alongNormal), RAdd(RInv(m1), RInv(m2)))

\* resolveBallCollision(ball1, ball2): the pair <<ball1, ball2>> afterwards
ResolveBallCollision(b1, b2, e) ==
    LET normal == VNormalize(VSub(Position(b2), Position(b1)))
        relativeVelocity == VSub(Velocity(b2), Velocity(b1))
        velocityAlongNormal == VDot(relativeVelocity, normal)
        impulseVec == VScale(normal, ImpulseScalar(velocityAlongNormal, e, b1.m, b2.m))
        v1 == VSub(Velocity(b1), VScale(impulseVec, RInv(b1.m)))
        v2 == VAdd(Velocity(b2), VScale(impulseVec, RInv(b2.m)))
        overlap == RSub(RAdd(b1.r, b2.r), VLength(VSub(Position(b1), Position(b2))))
        correction == IF RLess(Zero, overlap)
                      THEN VScale(normal, RMul(overlap, Rat(1, 2)))
                      ELSE Vec(Zero, Zero)
        p1 == VSub(Position(b1), correction)
        p2 == VAdd(Position(b2), correction)
    IN  IF RLess(Zero, velocityAlongNormal)
        THEN <<b1, b2>>
        ELSE << [b1 EXCEPT !.vx = v1.x, !.vy = v1.y, !.px = p1.x, !.py = p1.y],
                [b2 EXCEPT !.vx = v2.x, !.vy = v2.y, !.px = p2.x, !.py = p2.y] >>

(***************************************************************************)
(* GridPuzzleAnimation: one square of the grid.  Angles are fixed-point    *)
(* numbers in units of 10^-6 rad, with Math.PI / 2 = 1570796; no branch of *)
(* update() is decided by a smaller difference than that.                  *)
(***************************************************************************)
\* Math.PI / 2
HalfPi == 1570796

Pi == 2 * HalfPi

TwoPi == 4 * HalfPi

\* speed: radians per frame (0.15)
Speed == 150000

\* the distance below which a corner counts as arrived (0.01)
Snap == 10000

\* square.targetRotation before the first setLineDirection
Undefined == -1

\* a % b of JavaScript: the remainder has the sign of a
JsRemainder(a, b) == IF a >= 0 THEN a % b ELSE -((-a) % b)

\* let x = angle % (2 * Math.PI); if (x < 0) x += 2 * Math.PI
Normalize(angle) ==
    LET x == JsRemainder(angle, TwoPi)
    IN  IF x < 0 THEN x + TwoPi ELSE x

Sign(x) == IF x > 0 THEN 1 ELSE IF x < 0 THEN -1 ELSE 0

Min(a, b) == IF a <= b THEN a ELSE b

\* createGrid: a square with its random initial direction
NewSquare(initialDirection) ==
    [direction |-> initialDirection, targetRotation |-> Undefined,
     rotation |-> initialDirection * HalfPi]

\* setLineDirection(square, direction)
SetLineDirection(sq, direction) ==
    [sq EXCEPT !.direction = direction, !.targetRotation = direction * HalfPi]

\* every square counts as not rotating
NotRotatingAlways(sq) == TRUE

\* update(), second loop: Math.abs(current - target) < 0.01
NotRotating(sq) ==
    LET current == Normalize(sq.rotation)
        target == Normalize(IF sq.targetRotation = Undefined
                            THEN sq.direction * HalfPi ELSE sq.targetRotation)
    IN  Abs(current - target) < Snap

\* a new direction drawn from all four
NewDirectionAny(direction, draw) == (direction + draw) % 4

\* (square.direction + 1 + Math.floor(Math.random() * 3)) % 4, draw being
\* Math.floor(Math.random() * 3)
NewDirection(direction, draw) == (direction + 1 + draw) % 4

\* update(), second loop for one square: fire is Math.random() < 0.005
TriggerRotation(sq, fire, draw) ==
    IF NotRotating(sq) /\ fire
    THEN SetLineDirection(sq, NewDirection(sq.direction, draw))
    ELSE sq

\* the difference to the target, not folded to the shorter arc
DirectDelta(current, target) == target - current

\* let delta = target - current, folded into [-PI, PI]
ShortestDelta(current, target) ==
    LET delta == target - current
        lowered == IF delta > Pi THEN delta - TwoPi ELSE delta
    IN  IF lowered < -Pi THEN lowered + TwoPi ELSE lowered

\* update(), third loop for one square
AnimateRotation(sq) ==
    IF sq.targetRotation = Undefined THEN sq
    ELSE LET current == Normalize(sq.rotation)
             target == Normalize(sq.targetRotation)
             delta == ShortestDelta(current, target)
         IN  IF Abs(delta) < Snap
             THEN [sq EXCEPT !.rotation = target]
             ELSE [sq EXCEPT !.rotation = @ + Sign(delta) * Min(Abs(delta), Speed)]

\* update() for one square
SquareUpdate(sq, fire, draw) == AnimateRotation(TriggerRotation(sq, fire, draw))

(***************************************************************************)
(* FlyingParticlesAnimation: the tails.  A point is named by the particle  *)
(* and the frame it was computed for; frame 0 is the starting position.    *)
(* The copy of the class that is left in 4_GridPuzzleAnimation.ts starts   *)
(* every tail at the origin and has ten particles.                         *)
(***************************************************************************)
\* TAIL_LENGTH
TAIL_LENGTH == 40

\* PARTICLE_COUNT of either copy
ParticleCount(copy) == IF copy = "current" THEN 15 ELSE 10

\* the position of particle i at this.time = frame / 60
PointAt(i, frame) == [particle |-> i, frame |-> frame]

\* the point every entry of a new tail holds
InitialPoint(copy, i) == IF copy = "current" THEN PointAt(i, 0) ELSE PointAt(0, 0)

\* createParticles(): Array.from({ length: TAIL_LENGTH }, ...) per particle
CreateTails(copy) ==
    [i \in 1..ParticleCount(copy) |->
        [tailPositions |-> [k \in 1..TAIL_LENGTH |-> InitialPoint(copy, i)]]]

\* array.unshift(point)
Unshift(array, point) == <<point>> \o array

\* array.pop()
Pop(array) == SubSeq(array, 1, Len(array) - 1)

\* the tail is never shortened
KeepAll(array) == array

\* if (p.tailPositions.length > this.TAIL_LENGTH) p.tailPositions.pop()
PopOverflow(array) == IF Len(array) > TAIL_LENGTH THEN Pop(array) ELSE array

\* update(): the tail of particle i at this.time = frame / 60
UpdateTail(particle, i, frame) ==
    [particle EXCEPT !.tailPositions = PopOverflow(Unshift(@, PointAt(i, frame)))]

\* update(): for (const p of this.particles)
FlyingUpdate(particles, frame) ==
    [i \in 1..Len(particles) |-> UpdateTail(particles[i], i, frame)]

(***************************************************************************)
(* State.                                                                  *)
(***************************************************************************)
VARIABLES
    glob,                 \* which directory listing import.meta.glob returned
    loadPc,               \* loadAnimations: "glob", "import", "done", "failed"
    loadIdx,              \* index of the module whose import is awaited
    availableAnimations,  \* AnimationManager.availableAnimations
    selectOptions,        \* values of the <option>s of #animation-select
    selectValue,          \* select.value
    currentAnimation,     \* index into instances, 0 for null
    instances,            \* every animation constructed so far, in order
    scene,                \* children of the THREE.Scene
    background,           \* scene.background
    rafPending,           \* pending requestAnimationFrame callbacks
    lastFrame,            \* the calls made by the most recent animate()
    uncaught,             \* an exception left a task or an async method
    consoleErrors,        \* console.error calls: <<method, instance>>
    collisionIn,          \* the animation whose resolveBallCollision is called
    ball1, ball2,         \* the pair handed to resolveBallCollision
    after1, after2,       \* the pair when resolveBallCollision has returned
    collisionPc,          \* "idle", "ready", "resolved"
    managerDisposed,      \* -1, or the number of instances constructed when
                          \* AnimationManager.dispose() returned
    fwPhase,              \* one FireworksAnimation: "idle", "live", "disposed"
    fw,                   \* its fields
    fwNow,                \* Date.now()
    fwFrames,             \* update() calls so far
    fwLog,                \* the last two fireworks launched: time and colour
    fwDoomed,             \* the particles the last forEach had to remove
    gridPhase,            \* one square of a GridPuzzleAnimation: "idle", "live"
    square,               \* its direction, targetRotation and rotation
    gridRotations,        \* rotations triggered so far
    gridSince,            \* update() calls since the last one was triggered
    gridTurned,           \* angle the corner has turned since then
    flyPhase,             \* one FlyingParticlesAnimation: "idle", "live", "disposed"
    flyCopy,              \* which copy of the class: "current", "earlier"
    flyParticles,         \* this.particles: the tailPositions of each particle
    flyTime               \* this.time, in frames (sixtieths of a second)

managerVars == <<glob, loadPc, loadIdx, availableAnimations, selectOptions,
                 selectValue, currentAnimation, instances, scene, background,
                 rafPending, lastFrame, uncaught, consoleErrors>>

collisionVars == <<collisionIn, ball1, ball2, after1, after2, collisionPc>>

\* what the tasks of the manager and of its animations leave alone
fireworksVars == <<fwPhase, fw, fwNow, fwFrames, fwLog, fwDoomed>>

gridVars == <<gridPhase, square, gridRotations, gridSince, gridTurned>>

flyingVars == <<flyPhase, flyCopy, flyParticles, flyTime>>

otherVars == <<collisionVars, managerDisposed, fireworksVars, gridVars, flyingVars>>

vars == <<glob, loadPc, loadIdx, availableAnimations, selectOptions,
          selectValue, currentAnimation, instances, scene, background,
          rafPending, lastFrame, uncaught, consoleErrors,
          collisionIn, ball1, ball2, after1, after2, collisionPc,
          managerDisposed, fwPhase, fw, fwNow, fwFrames, fwLog, fwDoomed,
          gridPhase, square, gridRotations, gridSince, gridTurned,
          flyPhase, flyCopy, flyParticles, flyTime>>

\* the empty string
Empty == <<>>

(***************************************************************************)
(* AnimationManager.loadAnimation(name)  (main.ts:140-149)                 *)
(***************************************************************************)
\* the current animation is replaced without being disposed
DisposeNothing(cur, insts) == insts

\* main.ts:141-143: dispose the current animation, if there is one
DisposeCurrent(cur, insts) ==
    IF cur # 0
    THEN [insts EXCEPT ![cur] = [ReceiveDispose(@) EXCEPT !.st = DisposeState(insts[cur])]]
    ELSE insts

\* the scene after main.ts:141-143
SceneAfterDispose(cur, insts, scn) ==
    IF cur # 0 THEN scn \ DisposeRemoves(insts[cur], cur) ELSE scn

\* main.ts:145: availableAnimations.find(a => a.name === name), 0 if none
FindAnimation(avail, name) ==
    IF \E k \in 1..Len(avail) : avail[k].name = name
    THEN CHOOSE k \in 1..Len(avail) :
             /\ avail[k].name = name
             /\ \A j \in 1..(k - 1) : avail[j].name # name
    ELSE 0

\* loadAnimation that assigns currentAnimation only while it is null
LoadAnimationStale(name, avail, cur, insts, scn, bg) ==
    LET disposed == DisposeCurrent(cur, insts)
        cleared == SceneAfterDispose(cur, insts, scn)
        found == FindAnimation(avail, name)
        id == Len(insts) + 1
    IN  IF found = 0
        THEN [current |-> cur, instances |-> disposed, scene |-> cleared, background |-> bg]
        ELSE [current |-> IF cur = 0 THEN id ELSE cur,
              instances |-> Append(disposed, NewInstance(avail[found].constructor)),
              scene |-> cleared \cup ConstructChildren(avail[found].constructor, id),
              background |-> ConstructBackground(avail[found].constructor, bg)]

\* the manager's fields, the instances and the scene after loadAnimation(name)
LoadAnimation(name, avail, cur, insts, scn, bg) ==
    LET disposed == DisposeCurrent(cur, insts)
        cleared == SceneAfterDispose(cur, insts, scn)
        found == FindAnimation(avail, name)
        id == Len(insts) + 1
    IN  IF found = 0
        THEN [current |-> cur, instances |-> disposed, scene |-> cleared, background |-> bg]
        ELSE [current |-> id,
              instances |-> Append(disposed, NewInstance(avail[found].constructor)),
              scene |-> cleared \cup ConstructChildren(avail[found].constructor, id),
              background |-> ConstructBackground(avail[found].constructor, bg)]

(***************************************************************************)
(* AnimationManager.updateSelectOptions()  (main.ts:66-89)                 *)
(***************************************************************************)
\* the option values after select.innerHTML = '' and the forEach
OptionsOf(avail) == [k \in 1..Len(avail) |-> avail[k].name]

\* select.value after the forEach: the first name, or '' without options
DefaultValue(avail) == IF avail = <<>> THEN Empty ELSE avail[1].name

(***************************************************************************)
(* Initial state: the constructor of AnimationManager has returned.  It    *)
(* started loadAnimations (suspended at its first await) and ran animate() *)
(* once, which requested the next frame and rendered the empty scene.      *)
(***************************************************************************)
ManagerInit ==
    /\ glob \in GlobNames
    /\ loadPc = "glob"
    /\ loadIdx = 1
    /\ availableAnimations = <<>>
    /\ selectOptions = <<Empty>>
    /\ selectValue = Empty
    /\ currentAnimation = 0
    /\ instances = <<>>
    /\ scene = {}
    /\ background = NoBackground
    /\ rafPending = 1
    /\ lastFrame = <<<<"requestAnimationFrame", 0>>, <<"render", 0>>>>
    /\ uncaught = FALSE
    /\ consoleErrors = {}

\* no collision is being resolved in the behaviours of the manager
CollisionIdle ==
    /\ collisionIn = "none"
    /\ ball1 = NoBall
    /\ ball2 = NoBall
    /\ after1 = NoBall
    /\ after2 = NoBall
    /\ collisionPc = "idle"

\* dispose() of the manager has not been called
NotDisposed == managerDisposed = -1

\* no FireworksAnimation is looked at on its own
FireworksIdle ==
    /\ fwPhase = "idle"
    /\ fw = ConstructState("Fireworks")
    /\ fwNow = 0
    /\ fwFrames = 0
    /\ fwLog = <<>>
    /\ fwDoomed = {}

\* no grid square is looked at on its own
GridIdle ==
    /\ gridPhase = "idle"
    /\ square = NewSquare(0)
    /\ gridRotations = 0
    /\ gridSince = 0
    /\ gridTurned = 0

\* no FlyingParticlesAnimation is looked at on its own
FlyingIdle ==
    /\ flyPhase = "idle"
    /\ flyCopy = "current"
    /\ flyParticles = <<>>
    /\ flyTime = 0

UnitsIdle == FireworksIdle /\ GridIdle /\ FlyingIdle

Init == ManagerInit /\ CollisionIdle /\ NotDisposed /\ UnitsIdle

(***************************************************************************)
(* AnimationManager.loadAnimations()  (main.ts:36-64)                      *)
(***************************************************************************)
\* main.ts:52-60 once the loop is over: sort, fill the select, load the first
FinishLoading(avail) ==
    LET sorted == SortAnimations(avail)
        loaded == LoadAnimation(DefaultValue(sorted), sorted, currentAnimation,
                                instances, scene, background)
    IN  /\ availableAnimations' = sorted
        /\ selectOptions' = OptionsOf(sorted)
        /\ selectValue' = DefaultValue(sorted)
        /\ currentAnimation' = IF sorted = <<>> THEN currentAnimation ELSE loaded.current
        /\ instances' = IF sorted = <<>> THEN instances ELSE loaded.instances
        /\ scene' = IF sorted = <<>> THEN scene ELSE loaded.scene
        /\ background' = IF sorted = <<>> THEN background ELSE loaded.background
        /\ loadPc' = "done"

\* the await of import.meta.glob(...) resumes: the loop awaits the first import
GlobResolved ==
    /\ loadPc = "glob"
    /\ loadPc' = "import"
    /\ loadIdx' = 1
    /\ UNCHANGED <<glob, availableAnimations, selectOptions, selectValue,
                   currentAnimation, instances, scene, background, rafPending,
                   lastFrame, uncaught, consoleErrors>>
    /\ UNCHANGED otherVars

\* main.ts:61-63: the catch block logs and swallows the error
LoadAnimationsCatch(unc) == unc

\* the awaited import of module loadIdx rejects
ImportRejected ==
    /\ loadPc = "import"
    /\ loadPc' = "failed"
    /\ consoleErrors' = consoleErrors \cup {<<"loadAnimations", 0>>}
    /\ uncaught' = LoadAnimationsCatch(uncaught)
    /\ UNCHANGED <<glob, loadIdx, availableAnimations, selectOptions, selectValue,
                   currentAnimation, instances, scene, background, rafPending,
                   lastFrame>>
    /\ UNCHANGED otherVars

\* the awaited import of module loadIdx resolves and there are more modules
ImportResolved ==
    /\ loadPc = "import"
    /\ loadIdx < Len(AnimationModules(glob))
    /\ availableAnimations' = Register(availableAnimations, AnimationModules(glob)[loadIdx])
    /\ loadIdx' = loadIdx + 1
    /\ UNCHANGED <<glob, loadPc, selectOptions, selectValue, currentAnimation,
                   instances, scene, background, rafPending, lastFrame, uncaught,
                   consoleErrors>>
    /\ UNCHANGED otherVars

\* the awaited import of the last module resolves: the rest of the try block
LastImportResolved ==
    /\ loadPc = "import"
    /\ loadIdx = Len(AnimationModules(glob))
    /\ FinishLoading(Register(availableAnimations, AnimationModules(glob)[loadIdx]))
    /\ UNCHANGED <<glob, loadIdx, rafPending, lastFrame, uncaught, consoleErrors>>
    /\ UNCHANGED otherVars

(***************************************************************************)
(* The change listener of setupSelect()  (main.ts:134-137).  The user      *)
(* picks an option other than the selected one.                            *)
(***************************************************************************)
ChangeEvent ==
    \E v \in SeqRange(selectOptions) :
        /\ v # selectValue
        /\ FindAnimation(availableAnimations, v) # 0 => Len(instances) < MaxInstances
        /\ selectValue' = v
        /\ LET loaded == LoadAnimation(v, availableAnimations, currentAnimation,
                                       instances, scene, background)
           IN  /\ currentAnimation' = loaded.current
               /\ instances' = loaded.instances
               /\ scene' = loaded.scene
               /\ background' = loaded.background
        /\ UNCHANGED <<glob, loadPc, loadIdx, availableAnimations, selectOptions,
                       rafPending, lastFrame, uncaught, consoleErrors>>
        /\ UNCHANGED otherVars

(***************************************************************************)
(* update() of an instance.                                                *)
(***************************************************************************)
\* update() without the guard: stepSimulation on a null physics world
SoftBodyUpdateUnguarded(st) == ~st.physicsWorld

\* SoftBodyAnimation.update() dereferences this.physicsWorld only behind
\* the guard  if (!this.physicsWorld || !this.transformAux1) return;
SoftBodyUpdateThrows(st) ==
    LET returnsEarly == ~st.physicsWorld \/ ~st.transformAux1
    IN  ~returnsEarly /\ ~st.physicsWorld

\* update() throws
UpdateThrows(inst) ==
    CASE inst.cls = "GridPuzzle" -> GridUpdateThrows(inst.st)
      [] inst.cls = "SoftBody" -> SoftBodyUpdateThrows(inst.st)
      [] OTHER -> FALSE

\* the values update() may read from the clock and the particles' ages
\* Date.now() of the page's first frame
PageLoadTime == 100000

\* the readings of Date.now() an update() of the instance is run with: the
\* first frame, a frame shortly after the last launch, and a frame just
\* after fireworkInterval has passed
NowChoices(inst) ==
    IF inst.cls # "Fireworks" THEN {PageLoadTime}
    ELSE IF inst.st.lastFireworkTime = 0 THEN {PageLoadTime}
    ELSE IF inst.st.launches >= MaxLaunches THEN {inst.st.lastFireworkTime + 16}
    ELSE {inst.st.lastFireworkTime + 16, inst.st.lastFireworkTime + FireworkInterval + 1}

ExpiredChoices(inst) ==
    IF inst.cls # "Fireworks" THEN {{}} ELSE SUBSET SeqRange(inst.st.particles)

\* the fields after update() returned normally (the colour draw is 0)
UpdateState(inst, now, expired) ==
    IF inst.cls = "Fireworks" THEN FireworksUpdate(inst.st, now, 0, expired) ELSE inst.st

\* the scene after update() of instance i returned normally
UpdateScene(inst, i, now, expired, scn) ==
    IF inst.cls = "Fireworks"
    THEN FireworksScene(i, scn, UpdateState(inst, now, expired))
    ELSE scn

(***************************************************************************)
(* AnimationManager.animate()  (main.ts:151-159)                           *)
(***************************************************************************)
\* animate() that renders before it updates
AnimateRendersFirst(cur, threw) ==
    <<<<"requestAnimationFrame", 0>>, <<"render", 0>>>>
        \o (IF cur # 0 THEN <<<<"update", cur>>>> ELSE <<>>)

\* the calls one animate() makes, in order; an update() that throws ends it
AnimateCalls(cur, threw) ==
    <<<<"requestAnimationFrame", 0>>>>
        \o (IF cur # 0 THEN <<<<"update", cur>>>> ELSE <<>>)
        \o (IF threw THEN <<>> ELSE <<<<"render", 0>>>>)

\* callbacks pending after animate(): its own is consumed, it requests one
PendingAfterAnimate(pending) == (pending - 1) + 1

Animate ==
    /\ rafPending > 0
    /\ rafPending' = PendingAfterAnimate(rafPending)
    /\ IF currentAnimation = 0
       THEN /\ lastFrame' = AnimateCalls(0, FALSE)
            /\ UNCHANGED <<instances, scene, uncaught>>
       ELSE LET cur == currentAnimation
                inst == instances[cur]
                threw == UpdateThrows(inst)
            IN  \E now \in NowChoices(inst), expired \in ExpiredChoices(inst) :
                    /\ lastFrame' = AnimateCalls(cur, threw)
                    /\ uncaught' = (uncaught \/ threw)
                    /\ instances' = [instances EXCEPT ![cur] =
                           [ReceiveUpdate(@) EXCEPT
                                !.st = IF threw THEN @ ELSE UpdateState(inst, now, expired)]]
                    /\ scene' = IF threw THEN scene
                                ELSE UpdateScene(inst, cur, now, expired, scene)
    /\ UNCHANGED <<glob, loadPc, loadIdx, availableAnimations, selectOptions,
                   selectValue, currentAnimation, background, consoleErrors>>
    /\ UNCHANGED otherVars

InstanceIds == 1..Len(instances)

\* the state after replacing the fields of instance i
WithState(i, st) == [instances EXCEPT ![i] = [@ EXCEPT !.st = st]]

(***************************************************************************)
(* ControlledSphereAnimation.setupHandTracking()                           *)
(* (6_ControlledSphereAnimation.ts:67-132).  The constructor runs it up to *)
(* the await of getUserMedia; each action is the continuation of one       *)
(* await, taken whether or not dispose() has been called meanwhile.        *)
(***************************************************************************)
\* getUserMedia resolved, without the check of this.disposed
SphereAfterGetUserMediaUnchecked(st) ==
    [st EXCEPT !.stream = TRUE, !.acquired = TRUE, !.srcObject = TRUE, !.setupPc = "play"]

\* lines 84-95: getUserMedia resolved
SphereAfterGetUserMedia(st) ==
    LET got == [st EXCEPT !.stream = TRUE, !.acquired = TRUE]
    IN  IF got.disposed
        THEN [CleanupVideoElement(StopMediaStream(got)) EXCEPT !.setupPc = "returned"]
        ELSE [got EXCEPT !.srcObject = TRUE, !.setupPc = "play"]

\* lines 126-128: if (!this.disposed) this.camera.start()
SphereStartCamera(st) ==
    IF ~st.disposed
    THEN [st EXCEPT !.cameraRunning = TRUE,
                    !.startedAfterDispose = @ \/ st.disposed]
    ELSE st

\* lines 98-128: the libraries have loaded
SphereAfterLibraries(st) ==
    IF st.disposed
    THEN [CleanupVideoElement(StopMediaStream(st)) EXCEPT !.setupPc = "returned"]
    ELSE SphereStartCamera([st EXCEPT !.hands = TRUE, !.camera = TRUE,
                                      !.setupPc = "done"])

\* lines 129-131: the catch block
SphereCatch(st) == [st EXCEPT !.setupPc = "failed"]

SphereGetUserMediaResolved(i) ==
    /\ instances[i].cls = "ControlledSphere"
    /\ instances[i].st.setupPc = "getUserMedia"
    /\ instances' = WithState(i, SphereAfterGetUserMedia(instances[i].st))
    /\ UNCHANGED <<glob, loadPc, loadIdx, availableAnimations, selectOptions,
                   selectValue, currentAnimation, scene, background, rafPending,
                   lastFrame, uncaught, consoleErrors>>
    /\ UNCHANGED otherVars

SpherePlayResolved(i) ==
    /\ instances[i].cls = "ControlledSphere"
    /\ instances[i].st.setupPc = "play"
    /\ instances' = WithState(i, [instances[i].st EXCEPT !.setupPc = "libraries"])
    /\ UNCHANGED <<glob, loadPc, loadIdx, availableAnimations, selectOptions,
                   selectValue, currentAnimation, scene, background, rafPending,
                   lastFrame, uncaught, consoleErrors>>
    /\ UNCHANGED otherVars

SphereLibrariesResolved(i) ==
    /\ instances[i].cls = "ControlledSphere"
    /\ instances[i].st.setupPc = "libraries"
    /\ instances' = WithState(i, SphereAfterLibraries(instances[i].st))
    /\ UNCHANGED <<glob, loadPc, loadIdx, availableAnimations, selectOptions,
                   selectValue, currentAnimation, scene, background, rafPending,
                   lastFrame, uncaught, consoleErrors>>
    /\ UNCHANGED otherVars

\* getUserMedia, video.play() or the library import rejects
SphereAwaitRejected(i) ==
    /\ instances[i].cls = "ControlledSphere"
    /\ instances[i].st.setupPc \in {"getUserMedia", "play", "libraries"}
    /\ instances' = WithState(i, SphereCatch(instances[i].st))
    /\ consoleErrors' = consoleErrors \cup {<<"setupHandTracking", i>>}
    /\ UNCHANGED <<glob, loadPc, loadIdx, availableAnimations, selectOptions,
                   selectValue, currentAnimation, scene, background, rafPending,
                   lastFrame, uncaught>>
    /\ UNCHANGED otherVars

(***************************************************************************)
(* SoftBodyAnimation.initPhysics()  (part_003:108-146).  Everything after  *)
(* the await of new Ammo() is synchronous; reach says how far it gets      *)
(* before a library call throws: "ammo" (the promise rejects), "world",    *)
(* "ground" (inside createGround, after scene.add), "ball" (inside         *)
(* createSoftBodyBall, after scene.add) or "end" (no failure).             *)
(***************************************************************************)
InitReach == {"ammo", "world", "ground", "ball", "end"}

\* the fields after the continuation of initPhysics
SoftBodyInit(st, reach) ==
    CASE reach = "ammo" -> [st EXCEPT !.initPc = "failed"]
      [] reach = "world" -> [st EXCEPT !.initPc = "failed", !.ammoModule = TRUE]
      [] reach = "ground" ->
            [st EXCEPT !.initPc = "failed", !.ammoModule = TRUE, !.physicsWorld = TRUE,
                       !.transformAux1 = TRUE, !.softBodyHelpers = TRUE]
      [] reach = "ball" ->
            [st EXCEPT !.initPc = "failed", !.ammoModule = TRUE, !.physicsWorld = TRUE,
                       !.transformAux1 = TRUE, !.softBodyHelpers = TRUE,
                       !.rigidBodies = 1, !.worldBodies = {"ground"}]
      [] reach = "end" ->
            [st EXCEPT !.initPc = "done", !.ammoModule = TRUE, !.physicsWorld = TRUE,
                       !.transformAux1 = TRUE, !.softBodyHelpers = TRUE,
                       !.rigidBodies = 1, !.softBodies = 1,
                       !.worldBodies = {"ground", "centerBody", "softBall"}]

\* the meshes the continuation of initPhysics adds to the scene
SoftBodyInitAdds(i, reach) ==
    CASE reach \in {"ammo", "world"} -> {}
      [] reach = "ground" -> {Child(i, "ground", 1)}
      [] reach \in {"ball", "end"} -> {Child(i, "ground", 1), Child(i, "softBall", 1)}

SoftBodyInitSettled(i) ==
    /\ instances[i].cls = "SoftBody"
    /\ instances[i].st.initPc = "ammo"
    /\ \E reach \in InitReach :
        /\ instances' = WithState(i, SoftBodyInit(instances[i].st, reach))
        /\ scene' = scene \cup SoftBodyInitAdds(i, reach)
        /\ consoleErrors' = IF reach = "end" THEN consoleErrors
                            ELSE consoleErrors \cup {<<"initPhysics", i>>}
    /\ UNCHANGED <<glob, loadPc, loadIdx, availableAnimations, selectOptions,
                   selectValue, currentAnimation, background, rafPending,
                   lastFrame, uncaught>>
    /\ UNCHANGED otherVars

(***************************************************************************)
(* FireworksAnimation: the setTimeout callback of launchFirework           *)
(* (FireworksAnimation.ts:184-186) runs explode(mainParticle).             *)
(***************************************************************************)
ExplosionTimer(i) ==
    /\ instances[i].cls = "Fireworks"
    /\ \E p \in instances[i].st.timers, count \in 1..MaxSparks :
        /\ instances' = WithState(i, FireworksExplode(instances[i].st, p, count))
        /\ scene' = FireworksScene(i, scene, FireworksExplode(instances[i].st, p, count))
    /\ UNCHANGED <<glob, loadPc, loadIdx, availableAnimations, selectOptions,
                   selectValue, currentAnimation, background, rafPending,
                   lastFrame, uncaught, consoleErrors>>
    /\ UNCHANGED otherVars

Next ==
    \/ GlobResolved
    \/ ImportRejected
    \/ ImportResolved
    \/ LastImportResolved
    \/ ChangeEvent
    \/ Animate
    \/ \E i \in InstanceIds : SphereGetUserMediaResolved(i)
    \/ \E i \in InstanceIds : SpherePlayResolved(i)
    \/ \E i \in InstanceIds : SphereLibrariesResolved(i)
    \/ \E i \in InstanceIds : SphereAwaitRejected(i)
    \/ \E i \in InstanceIds : SoftBodyInitSettled(i)
    \/ \E i \in InstanceIds : ExplosionTimer(i)

Spec == Init /\ [][Next]_vars

(***************************************************************************)
(* Vocabulary of the properties.                                           *)
(***************************************************************************)
Live(i) == instances[i].phase # "disposed"

Disposed(i) == instances[i].phase = "disposed"

\* no await, timer or promise of instance i is outstanding
Quiescent(i) ==
    CASE instances[i].cls = "ControlledSphere" ->
             instances[i].st.setupPc \in {"done", "returned", "failed"}
      [] instances[i].cls = "SoftBody" -> instances[i].st.initPc # "ammo"
      [] instances[i].cls = "Fireworks" -> instances[i].st.timers = {}
      [] OTHER -> TRUE

\* the children of the scene that instance i created
OwnChildren(i) == {c \in scene : c.owner = i}

FrameRequest == <<"requestAnimationFrame", 0>>
FrameRender == <<"render", 0>>
FrameUpdate(i) == <<"update", i>>

(***************************************************************************)
(* C1: every instance the manager constructs receives construct, then      *)
(* zero or more update() calls, then dispose(): no update() arrives after  *)
(* dispose(), and dispose() arrives at most once, whatever the order of    *)
(* change events, frames and asynchronous completions.                     *)
(***************************************************************************)
LifecycleOrder ==
    \A i \in InstanceIds :
        /\ instances[i].misuse # "updateAfterDispose"
        /\ instances[i].misuse # "disposeTwice"

\* an instance that a frame updated and a change event then disposed
LifecycleOrderWitness ==
    \E i \in InstanceIds :
        /\ lastFrame = <<FrameRequest, FrameUpdate(i), FrameRender>>
        /\ Disposed(i)
        /\ instances[i].misuse = "none"
        /\ currentAnimation # i

(***************************************************************************)
(* C2: at most one animation is live (constructed and not disposed) in     *)
(* every reachable state, and currentAnimation is null or that animation.  *)
(***************************************************************************)
AtMostOneLive ==
    /\ Cardinality({i \in InstanceIds : Live(i)}) <= 1
    /\ \A i \in InstanceIds : Live(i) => currentAnimation = i
    /\ currentAnimation # 0 => (currentAnimation \in InstanceIds /\ Live(currentAnimation))

\* a second animation has replaced the first
AtMostOneLiveWitness ==
    /\ Len(instances) >= 2
    /\ Disposed(1)
    /\ currentAnimation = Len(instances)
    /\ Live(currentAnimation)

(***************************************************************************)
(* C3 as stated: once an instance is disposed and its pending callbacks    *)
(* and timers have run, the scene has none of its children left and the    *)
(* background is what it was before any animation was constructed (unless  *)
(* the live animation set it).                                             *)
(***************************************************************************)
SceneRestoredAfterDispose ==
    /\ \A i \in InstanceIds : (Disposed(i) /\ Quiescent(i)) => OwnChildren(i) = {}
    /\ background # NoBackground =>
           \E i \in InstanceIds : Live(i) /\ instances[i].cls = "SoftBody"

(***************************************************************************)
(* C4: one animation-frame loop.  At most one requestAnimationFrame        *)
(* callback is pending in every state, and every frame requests the next   *)
(* frame, calls update() once on the animation that is current (if any)    *)
(* and then renders.                                                       *)
(***************************************************************************)
ExpectedFrame(cur) ==
    IF cur = 0 THEN <<FrameRequest, FrameRender>>
    ELSE <<FrameRequest, FrameUpdate(cur), FrameRender>>

SingleFrameLoop ==
    /\ [](rafPending <= 1)
    /\ [][Animate => lastFrame' = ExpectedFrame(currentAnimation)]_vars

\* a frame that updated the current animation and rendered
SingleFrameLoopWitness ==
    /\ currentAnimation # 0
    /\ lastFrame = <<FrameRequest, FrameUpdate(currentAnimation), FrameRender>>
    /\ rafPending = 1

(***************************************************************************)
(* C5: a failed library initialisation is caught and logged.  No           *)
(* exception leaves loadAnimations, setupHandTracking or initPhysics, no   *)
(* frame throws, the next frame stays requested, and each failure has      *)
(* produced its console.error.                                             *)
(***************************************************************************)
FailuresCaughtAndLogged ==
    /\ uncaught = FALSE
    /\ rafPending >= 1
    /\ Len(lastFrame) > 0 /\ lastFrame[Len(lastFrame)] = FrameRender
    /\ loadPc = "failed" => <<"loadAnimations", 0>> \in consoleErrors
    /\ \A i \in InstanceIds :
        /\ (instances[i].cls = "ControlledSphere" /\ instances[i].st.setupPc = "failed")
               => <<"setupHandTracking", i>> \in consoleErrors
        /\ (instances[i].cls = "SoftBody" /\ instances[i].st.initPc = "failed")
               => <<"initPhysics", i>> \in consoleErrors

\* Ammo failed for the current SoftBodyAnimation and a later frame updated it
FailuresCaughtAndLoggedWitness ==
    /\ currentAnimation # 0
    /\ instances[currentAnimation].cls = "SoftBody"
    /\ instances[currentAnimation].st.initPc = "failed"
    /\ ~instances[currentAnimation].st.physicsWorld
    /\ instances[currentAnimation].phase = "updated"
    /\ lastFrame = ExpectedFrame(currentAnimation)

(***************************************************************************)
(* Vocabulary of the discovery properties, stated on the files and not on  *)
(* the operators of loadAnimations.                                        *)
(***************************************************************************)
\* the file name without its directory and without the extension ".ts"
FileBaseName(path) ==
    LET file == LastSegment(path) IN SubSeq(file, 1, Len(file) - 3)

\* the first export of the module is a class derived from AbstractAnimation
ExportsAnimationFirst(module) ==
    /\ Len(module.exports) > 0
    /\ module.exports[1].kind = "class"
    /\ module.exports[1].extends = "AbstractAnimation"

\* the entries of availableAnimations that carry the module's base name
Registrations(module) ==
    {k \in 1..Len(availableAnimations) :
         availableAnimations[k].name = FileBaseName(module.path)}

Offered(module) == FileBaseName(module.path) \in SeqRange(selectOptions)

ModulesFound == SeqRange(AnimationModules(glob))

\* registered exactly once, with its class, iff the first export qualifies
RegisteredIffAnimation ==
    \A m \in ModulesFound :
        IF ExportsAnimationFirst(m)
        THEN /\ Cardinality(Registrations(m)) = 1
             /\ \A k \in Registrations(m) :
                    availableAnimations[k].constructor = m.exports[1].cls
             /\ Offered(m)
        ELSE Registrations(m) = {} /\ ~Offered(m)

DiscoveryHolds ==
    /\ loadPc = "done" => RegisteredIffAnimation
    /\ \A m \in ModulesFound :
        /\ Cardinality(Registrations(m)) <= 1
        /\ ~ExportsAnimationFirst(m) => (Registrations(m) = {} /\ ~Offered(m))
    /\ loadPc = "failed" => selectOptions = <<Empty>>

discoveryVars == <<loadPc, availableAnimations, selectOptions>>

KeysAscending(options) ==
    \A k \in 1..(Len(options) - 1) :
        LocaleCompare(SortKey(options[k]), SortKey(options[k + 1])) <= 0

\* the class exported first by the module with this base name
ClassNamed(name, g) ==
    {m.exports[1].cls : m \in {x \in SeqRange(AnimationModules(g)) :
                                  ExportsAnimationFirst(x) /\ FileBaseName(x.path) = name}}

DefaultSelection ==
    /\ [][(loadPc = "import" /\ loadPc' = "done") =>
            /\ KeysAscending(selectOptions')
            /\ SeqRange(selectOptions') =
                   {FileBaseName(m.path) : m \in {x \in ModulesFound : ExportsAnimationFirst(x)}}
            /\ selectValue' = selectOptions'[1]
            /\ Len(instances') = 1
            /\ currentAnimation' = 1
            /\ instances'[1].phase = "constructed"
            /\ instances'[1].cls \in ClassNamed(selectOptions'[1], glob)]_vars
    /\ [][loadPc = "done" => (loadPc' = "done" /\ selectOptions' = selectOptions)]_vars

\* loading has finished for the listing whose key order is not alphabetical
DefaultSelectionWitness ==
    /\ loadPc = "done"
    /\ glob = "unsorted"
    /\ Len(selectOptions) = 3
    /\ selectValue = selectOptions[1]
    /\ Len(instances) = 1
    /\ instances[1].cls = "Bounce"
    /\ currentAnimation = 1

(***************************************************************************)
(* C9: ControlledSphereAnimation.  If dispose() was called while           *)
(* setupHandTracking was in flight, then once setup has finished every     *)
(* track of the acquired stream is stopped and the video element is out    *)
(* of the document; Camera.start() is never called after dispose().        *)
(***************************************************************************)
SetupInFlight == {"getUserMedia", "play", "libraries"}

HandTrackingReleased ==
    \A i \in InstanceIds :
        instances[i].cls = "ControlledSphere" =>
            LET st == instances[i].st
            IN  /\ ~st.startedAfterDispose
                /\ st.disposed => ~st.cameraRunning
                /\ (st.disposedAt \in SetupInFlight /\ st.setupPc \notin SetupInFlight) =>
                       /\ st.acquired => st.tracksStopped
                       /\ ~st.videoInDom
                       /\ ~st.camera /\ ~st.hands

\* disposed while getUserMedia was pending; the stream arrived and was stopped
HandTrackingReleasedWitness ==
    \E i \in InstanceIds :
        /\ instances[i].cls = "ControlledSphere"
        /\ instances[i].st.disposedAt = "getUserMedia"
        /\ instances[i].st.setupPc = "returned"
        /\ instances[i].st.acquired
        /\ instances[i].st.tracksStopped
        /\ ~instances[i].st.videoInDom

(***************************************************************************)
(* C10 as stated: SoftBodyAnimation.  If dispose() was called before       *)
(* initPhysics completed, the completion creates no physics world and      *)
(* adds no ground or ball mesh to the scene.                               *)
(***************************************************************************)
NoPhysicsAfterDispose ==
    \A i \in InstanceIds :
        (instances[i].cls = "SoftBody" /\ instances[i].st.disposedAt = "ammo") =>
            /\ ~instances[i].st.physicsWorld
            /\ Child(i, "ground", 1) \notin scene
            /\ Child(i, "softBall", 1) \notin scene

(***************************************************************************)
(* resolveBallCollision on its own: a pair of overlapping balls of one     *)
(* animation is handed to it and it returns.  The inputs are the radii of  *)
(* the code, offsets of integer length and velocities of at most one       *)
(* hundredth per frame and axis.                                           *)
(***************************************************************************)
\* radii of the five balls of BounceAnimation (0.1, 0.08, 0.12, 0.09, 0.11)
BounceRadii == <<10, 8, 12, 9, 11>>

\* BALL_RADIUS of PentagonRotationAnimation (0.03)
PentagonRadius == 3

\* the pairs update() hands over: balls[i], balls[j] with i < j
RadiiPairs(animation) ==
    IF animation = "Bounce"
    THEN {<<BounceRadii[p[1]], BounceRadii[p[2]]>> :
              p \in {q \in (1..5) \X (1..5) : q[1] < q[2]}}
    ELSE {<<PentagonRadius, PentagonRadius>>}

\* ball2.position - ball1.position
Offsets == {<<0, 0>>, <<3, 4>>, <<-4, 3>>, <<5, 0>>, <<0, -5>>, <<-3, -4>>}

\* components of a velocity
Speeds == {-1, 0, 1}

IntVec(x, y) == Vec(Int2Rat(x), Int2Rat(y))

CollisionInit ==
    /\ glob = "repo"
    /\ ManagerInit
    /\ NotDisposed
    /\ UnitsIdle
    /\ collisionIn \in {"Bounce", "Pentagon"}
    /\ \E radii \in RadiiPairs(collisionIn), off \in Offsets,
          u1 \in Speeds, w1 \in Speeds, u2 \in Speeds, w2 \in Speeds :
        /\ ball1 = MakeBall(radii[1], IntVec(0, 0), IntVec(u1, w1))
        /\ ball2 = MakeBall(radii[2], IntVec(off[1], off[2]), IntVec(u2, w2))
    /\ after1 = ball1
    /\ after2 = ball2
    /\ collisionPc = "ready"

\* update(): if (checkBallCollision(a, b)) resolveBallCollision(a, b)
ResolveCollision ==
    /\ collisionPc = "ready"
    /\ CheckBallCollision(ball1, ball2)
    /\ LET result == ResolveBallCollision(ball1, ball2, Restitution(collisionIn))
       IN  /\ after1' = result[1]
           /\ after2' = result[2]
    /\ collisionPc' = "resolved"
    /\ UNCHANGED <<collisionIn, ball1, ball2>>
    /\ UNCHANGED <<managerVars, managerDisposed, fireworksVars, gridVars, flyingVars>>

CollisionNext == ResolveCollision

SpecCollision == CollisionInit /\ [][CollisionNext]_vars

\* sum of mass * speed^2 / 2 over the two balls
KineticEnergy(b1, b2) ==
    RMul(Rat(1, 2), RAdd(RMul(b1.m, VDot(Velocity(b1), Velocity(b1))),
                         RMul(b2.m, VDot(Velocity(b2), Velocity(b2)))))

\* the balls were moving towards each other along the line of centres
Approaching(b1, b2) ==
    RLess(VDot(VSub(Velocity(b2), Velocity(b1)), VSub(Position(b2), Position(b1))), Zero)

(***************************************************************************)
(* C6 as stated: in BounceAnimation and in PentagonRotationAnimation the   *)
(* total kinetic energy of the pair is the same after                      *)
(* resolveBallCollision as before it.                                      *)
(***************************************************************************)
CollisionsElastic ==
    collisionPc = "resolved" =>
        KineticEnergy(after1, after2) = KineticEnergy(ball1, ball2)

(***************************************************************************)
(* C6 amended: in BounceAnimation (restitution 1) the total kinetic energy *)
(* of the pair is the same after resolveBallCollision as before it; in     *)
(* PentagonRotationAnimation (restitution 0.95) it is never greater, and   *)
(* it is smaller whenever the two balls were approaching each other.       *)
(***************************************************************************)
CollisionEnergy ==
    collisionPc = "resolved" =>
        /\ collisionIn = "Bounce" =>
               KineticEnergy(after1, after2) = KineticEnergy(ball1, ball2)
        /\ collisionIn = "Pentagon" =>
               /\ RLeq(KineticEnergy(after1, after2), KineticEnergy(ball1, ball2))
               /\ Approaching(ball1, ball2) =>
                      RLess(KineticEnergy(after1, after2), KineticEnergy(ball1, ball2))

\* two approaching balls of BounceAnimation have exchanged an impulse
CollisionEnergyWitness ==
    /\ collisionPc = "resolved"
    /\ collisionIn = "Bounce"
    /\ Approaching(ball1, ball2)
    /\ Velocity(after1) # Velocity(ball1)
    /\ Velocity(after2) # Velocity(ball2)
    /\ KineticEnergy(after1, after2) = KineticEnergy(ball1, ball2)

(***************************************************************************)
(* C11 as stated: FireworksAnimation.  After dispose() the instance adds   *)
(* no particle mesh to the scene and no body to its physics world, also    *)
(* when an explosion timer scheduled before the dispose fires afterwards.  *)
(***************************************************************************)
FireworksDisposedAt(i) ==
    /\ i \in InstanceIds
    /\ instances[i].cls = "Fireworks"
    /\ Disposed(i)

FireworksQuietAfterDispose ==
    [][\A i \in InstanceIds : FireworksDisposedAt(i) =>
            /\ OwnChildren(i)' \subseteq OwnChildren(i)
            /\ instances'[i].st.worldBodies \subseteq instances[i].st.worldBodies]_vars

(***************************************************************************)
(* AnimationManager.dispose()  (main.ts:161-170).  The page never calls    *)
(* it (main.ts:173 drops the instance), so it is no action of Spec; in     *)
(* SpecDisposable an embedder calls it once, between two tasks.            *)
(***************************************************************************)
ManagerDispose ==
    /\ managerDisposed = -1
    \* animationFrameId holds the id of the pending request
    /\ rafPending' = 0
    \* currentAnimation.dispose(); this.currentAnimation keeps the instance
    /\ instances' = DisposeCurrent(currentAnimation, instances)
    /\ scene' = SceneAfterDispose(currentAnimation, instances, scene)
    /\ managerDisposed' = Len(instances)
    /\ UNCHANGED <<glob, loadPc, loadIdx, availableAnimations, selectOptions,
                   selectValue, currentAnimation, background, lastFrame,
                   uncaught, consoleErrors>>
    /\ UNCHANGED <<collisionVars, fireworksVars, gridVars, flyingVars>>

NextDisposable == Next \/ ManagerDispose

SpecDisposable == Init /\ [][NextDisposable]_vars

(***************************************************************************)
(* C12 as stated: after AnimationManager.dispose() returned no frame runs  *)
(* (no update(), no render) and no animation is constructed or disposed    *)
(* again, also when the dropdown fires a change event afterwards.          *)
(***************************************************************************)
ManagerDisposeStops ==
    [][managerDisposed # -1 =>
          /\ ~Animate
          /\ Len(instances') = Len(instances)
          /\ \A i \in InstanceIds :
                 /\ instances'[i].phase = instances[i].phase
                 /\ instances'[i].misuse = instances[i].misuse]_vars

(***************************************************************************)
(* One FireworksAnimation on its own, with its clock, its colours and its  *)
(* three collections: frames at chosen readings of Date.now(), explosion   *)
(* timers, and dispose().  A timer never fires early, but the event loop   *)
(* may run it arbitrarily late, so it may fire in any later task.          *)
(***************************************************************************)
\* milliseconds between two frames: a pause that ends exactly at, or just
\* after, fireworkInterval
FrameSteps == {FireworkInterval, FireworkInterval + 1}

\* the particles whose age reaches their lifetime in one update(): none,
\* one or two of the list
ExpiredSets(particles) ==
    {ps \in SUBSET SeqRange(particles) : Cardinality(ps) <= 2}

\* the last two entries of a log
LastTwo(log) == IF Len(log) <= 2 THEN log ELSE SubSeq(log, Len(log) - 1, Len(log))

FireworksInit ==
    /\ glob = "repo"
    /\ ManagerInit
    /\ CollisionIdle
    /\ NotDisposed
    /\ GridIdle
    /\ FlyingIdle
    /\ fwPhase = "live"
    /\ fw = ConstructState("Fireworks")
    /\ fwNow = PageLoadTime
    /\ fwFrames = 0
    /\ fwLog = <<>>
    /\ fwDoomed = {}

\* one animation frame: update() at the new reading of the clock
FireworksFrame ==
    /\ fwPhase = "live"
    /\ fwFrames < MaxFrames
    /\ \E dt \in FrameSteps, r \in ColorDraws(fw.lastColor),
          expired \in ExpiredSets(fw.particles) :
        /\ fwNow' = fwNow + dt
        /\ fw' = FireworksUpdate(fw, fwNow + dt, r, expired)
        /\ fwDoomed' = expired
    /\ fwFrames' = fwFrames + 1
    /\ fwLog' = LastTwo(fwLog \o [k \in 1..(fw'.launches - fw.launches) |->
                                     [time |-> fwNow', color |-> fw'.lastColor]])
    /\ UNCHANGED fwPhase
    /\ UNCHANGED <<managerVars, collisionVars, managerDisposed, gridVars, flyingVars>>

\* the setTimeout callback of launchFirework: explode(mainParticle)
FireworksTimer ==
    /\ fwPhase # "idle"
    /\ \E p \in fw.timers, count \in 1..MaxSparks :
        fw' = FireworksExplode(fw, p, count)
    /\ UNCHANGED <<fwPhase, fwNow, fwFrames, fwLog, fwDoomed>>
    /\ UNCHANGED <<managerVars, collisionVars, managerDisposed, gridVars, flyingVars>>

\* dispose(), called by loadAnimation when another animation is selected
FireworksDisposed ==
    /\ fwPhase = "live"
    /\ fwPhase' = "disposed"
    /\ fw' = FireworksDispose(fw)
    /\ fwDoomed' = SeqRange(fw.particles)
    /\ UNCHANGED <<fwNow, fwFrames, fwLog>>
    /\ UNCHANGED <<managerVars, collisionVars, managerDisposed, gridVars, flyingVars>>

FireworksNext == FireworksFrame \/ FireworksTimer \/ FireworksDisposed

SpecFireworks == FireworksInit /\ [][FireworksNext]_vars

ColourDiffersFromLast ==
    /\ \A k \in 1..Len(fwLog) : \E c \in 1..7 : fwLog[k].color = Colors[c]
    /\ Len(fwLog) = 2 => fwLog[2].color # fwLog[1].color
    /\ Len(fwLog) >= 1 => fw.lastColor = fwLog[Len(fwLog)].color

\* the last colour of the list was launched right after the first one
ColourDiffersFromLastWitness ==
    /\ Len(fwLog) = 2
    /\ fwLog[1].color = Colors[1]
    /\ fwLog[2].color = Colors[7]

(***************************************************************************)
(* C15: update() launches at most one firework per call, and only when     *)
(* more than fireworkInterval (1500 ms) has passed on the clock since the  *)
(* previous launch, so two launches are more than 1500 ms apart; the first *)
(* update() after construction launches one.                               *)
(***************************************************************************)
LaunchSpacing ==
    /\ Len(fwLog) = 2 => fwLog[2].time - fwLog[1].time > FireworkInterval
    /\ fw.launches <= fwFrames
    /\ fwFrames >= 1 => fw.launches >= 1
    /\ Len(fwLog) >= 1 => fw.lastFireworkTime = fwLog[Len(fwLog)].time

\* a second firework was launched as soon as more than the interval had passed
LaunchSpacingWitness ==
    /\ fw.launches = 2
    /\ Len(fwLog) = 2
    /\ fwLog[2].time - fwLog[1].time = FireworkInterval + 1

(***************************************************************************)
(* One square of a GridPuzzleAnimation on its own: createGrid draws its    *)
(* direction, and every frame update() may trigger a rotation and turns    *)
(* the corner.  The squares of the grid do not read each other.            *)
(***************************************************************************)
\* update() calls after which every rotation has arrived: a half turn at
\* 0.15 rad per frame, rounded up (21)
ArriveFrames == (Pi + Speed - 1) \div Speed

GridInit ==
    /\ glob = "repo"
    /\ ManagerInit
    /\ CollisionIdle
    /\ NotDisposed
    /\ FireworksIdle
    /\ FlyingIdle
    /\ gridPhase = "live"
    /\ \E initialDirection \in 0..3 : square = NewSquare(initialDirection)
    /\ gridRotations = 0
    /\ gridSince = 0
    /\ gridTurned = 0

\* the angle between two rotations of the corner, 0 .. Pi
AngularDistance(a, b) ==
    LET d == (a - b) % TwoPi
    IN  Min(d, TwoPi - d)

\* the rotation the corner is to reach
TargetOf(sq) ==
    IF sq.targetRotation = Undefined THEN sq.direction * HalfPi ELSE sq.targetRotation

\* one animation frame: update()
GridFrame ==
    /\ gridPhase = "live"
    /\ \E fire \in (IF gridRotations < MaxRotations THEN BOOLEAN ELSE {FALSE}),
          draw \in 0..2 :
        LET triggered == TriggerRotation(square, fire, draw) # square
        IN  /\ square' = SquareUpdate(square, fire, draw)
            /\ gridRotations' = IF triggered THEN gridRotations + 1 ELSE gridRotations
            /\ gridSince' = IF triggered THEN 1 ELSE Min(gridSince + 1, ArriveFrames + 1)
            /\ gridTurned' = (IF triggered THEN 0 ELSE gridTurned)
                                 + AngularDistance(square'.rotation, square.rotation)
    /\ UNCHANGED gridPhase
    /\ UNCHANGED <<managerVars, collisionVars, managerDisposed, fireworksVars, flyingVars>>

GridNext == GridFrame

SpecGrid == GridInit /\ [][GridNext]_vars

(***************************************************************************)
(* C16: the direction of a square is always 0, 1, 2 or 3, and a rotation   *)
(* that is triggered gives the square a direction different from the one   *)
(* it has.                                                                 *)
(***************************************************************************)
DirectionChanges ==
    /\ [](square.direction \in 0..3)
    /\ [][gridRotations' # gridRotations =>
             /\ square'.direction # square.direction
             /\ square'.targetRotation = square'.direction * HalfPi]_vars

\* two rotations were triggered and the square points another way each time
DirectionChangesWitness ==
    /\ gridPhase = "live"
    /\ gridRotations = 2
    /\ square.direction = 3
    /\ square.targetRotation = 3 * HalfPi

(***************************************************************************)
(* C17: a rotation is triggered only for a square that is not rotating.    *)
(* The direction and the target rotation of a square change only in a      *)
(* frame at whose start the corner is within 0.01 rad of its target; a     *)
(* corner on its way is never given another target.                        *)
(***************************************************************************)
RetargetOnlyAtRest ==
    [][(square'.direction # square.direction
            \/ square'.targetRotation # square.targetRotation) =>
          AngularDistance(square.rotation, TargetOf(square)) < Snap]_vars

\* a second rotation was triggered, after the first one had arrived
RetargetOnlyAtRestWitness ==
    /\ gridPhase = "live"
    /\ gridRotations = 2
    /\ gridSince = 1
    /\ AngularDistance(square.rotation, TargetOf(square)) > Speed

(***************************************************************************)
(* C18: once a square has a target rotation, every update() turns the      *)
(* corner toward it along the shorter arc, by at most 0.15 rad and never   *)
(* past it, so that the corner turns at most pi in total; after at most    *)
(* 21 frames the rotation is the target, and the next frame sets           *)
(* rotation.z to the target itself (the snap within 0.01 rad).             *)
(***************************************************************************)
RotationConverges ==
    /\ [](gridTurned <= Pi)
    /\ [](gridSince >= ArriveFrames =>
              AngularDistance(square.rotation, TargetOf(square)) = 0)
    /\ [][square'.targetRotation # Undefined =>
             /\ AngularDistance(square'.rotation, square.rotation) <= Speed
             /\ AngularDistance(square'.rotation, TargetOf(square')) =
                    AngularDistance(square.rotation, TargetOf(square'))
                        - AngularDistance(square'.rotation, square.rotation)
             /\ (AngularDistance(square.rotation, TargetOf(square')) < Snap =>
                    square'.rotation = Normalize(square'.targetRotation))]_vars

\* a half turn has arrived in the 21st frame, after turning pi
RotationConvergesWitness ==
    /\ gridPhase = "live"
    /\ gridSince = ArriveFrames
    /\ gridTurned = Pi
    /\ square.rotation = square.targetRotation

(***************************************************************************)
(* One FlyingParticlesAnimation on its own: frames, and dispose().         *)
(***************************************************************************)
FlyingInit ==
    /\ glob = "repo"
    /\ ManagerInit
    /\ CollisionIdle
    /\ NotDisposed
    /\ FireworksIdle
    /\ GridIdle
    /\ flyPhase = "live"
    /\ flyCopy \in {"current", "earlier"}
    /\ flyParticles = CreateTails(flyCopy)
    /\ flyTime = 0

\* one animation frame: update()
FlyingFrame ==
    /\ flyPhase = "live"
    /\ flyTime < MaxUpdates
    /\ flyTime' = flyTime + 1
    /\ flyParticles' = FlyingUpdate(flyParticles, flyTime + 1)
    /\ UNCHANGED <<flyPhase, flyCopy>>
    /\ UNCHANGED <<managerVars, collisionVars, managerDisposed, fireworksVars, gridVars>>

\* dispose(): this.particles = []
FlyingDisposed ==
    /\ flyPhase = "live"
    /\ flyPhase' = "disposed"
    /\ flyParticles' = <<>>
    /\ UNCHANGED <<flyCopy, flyTime>>
    /\ UNCHANGED <<managerVars, collisionVars, managerDisposed, fireworksVars, gridVars>>

FlyingNext == FlyingFrame \/ FlyingDisposed

SpecFlying == FlyingInit /\ [][FlyingNext]_vars

(***************************************************************************)
(* C19: the tail of every particle holds exactly TAIL_LENGTH (40) points   *)
(* before and after every update(); update() puts the new position at      *)
(* index 0 and drops the oldest point, so that the tail runs from the      *)
(* newest point to the oldest.                                             *)
(***************************************************************************)
TailHoldsForty ==
    \A i \in 1..Len(flyParticles) :
        LET tail == flyParticles[i].tailPositions
        IN  /\ Len(tail) = 40
            /\ \A k \in 1..Len(tail) :
                   tail[k] = IF k <= flyTime
                             THEN PointAt(i, flyTime - k + 1)
                             ELSE InitialPoint(flyCopy, i)

\* the last starting point has left the tail of every particle
TailHoldsFortyWitness ==
    /\ flyPhase = "live"
    /\ flyTime = 41
    /\ Len(flyParticles) = 15
    /\ \A i \in 1..Len(flyParticles) :
           /\ flyParticles[i].tailPositions[1] = PointAt(i, 41)
           /\ flyParticles[i].tailPositions[40] = PointAt(i, 2)

====
